---- MODULE Spec2Model ----
(***************************************************************************)
(* Model of the pulumi-vercel dynamic provider for a Vercel environment    *)
(* variable: the API client (pulumi_vercel/client.py) and the resource     *)
(* provider (pulumi_vercel/environment_variable.py).                       *)
(*                                                                         *)
(* Property bags (Python dicts) are functions from field names to values;  *)
(* a field that the dict does not hold is outside the function's DOMAIN.   *)
(* Three specifications:                                                   *)
(*   SpecCheck  check() applied to candidate property bags                 *)
(*   SpecDiff   diff() applied to pairs of property bags                   *)
(*   Spec       create/read/update/delete against the remote service       *)
(***************************************************************************)
EXTENDS Naturals, Sequences, FiniteSets, TLC

VARIABLES remote, nextId, last

vars == <<remote, nextId, last>>

----------------------------------------------------------------------------
(* Value domains of the checks.                                            *)

\* The most entries the remote service hands out ids for.
MaxEntries == 2

Keys == {"BAR", "FOO"}
Values == {"qux", "quux"}
TeamIds == {"safebear", "otherteam"}
ProjectIds == {"app", "site"}
ApiTokens == {"tok1", "tok2"}

\* Literal["system", "secret", "encrypted", "plain", "sensitive"]
TypeLiterals == {"system", "secret", "encrypted", "plain", "sensitive"}

\* Field(default_factory=lambda: ["production", "preview"])
DefaultTarget == <<"production", "preview">>

Targets == {DefaultTarget, <<"production">>}

\* The fields of EnvironmentVariableArgs, in declaration order.
ArgsFields == <<"key", "value", "type", "target", "teamId", "projectId", "apiToken">>

\* The fields EnvironmentVariableModel adds, in declaration order.
ModelFields == <<"id", "createdAt", "createdBy", "updatedAt", "updatedBy">>

\* target is the only field with a default.
Defaulted == {"target"}

Range(s) == {s[i] : i \in DOMAIN s}

Restrict(b, S) == [f \in S |-> b[f]]

----------------------------------------------------------------------------
(* EnvironmentVariableArgs / EnvironmentVariableModel: pydantic parsing.   *)

\* The validator of "type": "ValueError" is collected by pydantic as a
\* validation error of the field, "NotImplementedError" is not one of the
\* exceptions pydantic collects and leaves the parse as it is raised.
type_must_be_valid(v) ==
    IF v = "system" THEN "ValueError"
    ELSE IF v \in {"secret", "sensitive"} THEN "NotImplementedError"
    ELSE "none"

\* The validation errors of one field of obj, as pydantic reports them.
FieldErrors(obj, f) ==
    IF f \notin DOMAIN obj
    THEN IF f \in Defaulted THEN <<>>
         ELSE <<[loc |-> f, msg |-> "field required"]>>
    ELSE IF f # "type" THEN <<>>
    ELSE IF obj[f] \notin TypeLiterals
         THEN <<[loc |-> f, msg |-> "unexpected value"]>>
    ELSE IF type_must_be_valid(obj[f]) = "ValueError"
         THEN <<[loc |-> f, msg |-> "System environment variables cannot be created"]>>
    ELSE <<>>

RECURSIVE AllErrors(_, _)
AllErrors(obj, fields) ==
    IF fields = <<>> THEN <<>>
    ELSE FieldErrors(obj, Head(fields)) \o AllErrors(obj, Tail(fields))

\* The exception the validator lets through, if the type field reaches it.
ValidatorAbort(obj) ==
    /\ "type" \in DOMAIN obj
    /\ obj["type"] \in TypeLiterals
    /\ type_must_be_valid(obj["type"]) = "NotImplementedError"

\* The instance a successful parse builds: the declared fields, with defaults.
Instance(obj, fields) ==
    [f \in Range(fields) |-> IF f \in DOMAIN obj THEN obj[f] ELSE DefaultTarget]

\* cls.parse_obj(obj) for a model class with the given fields.
parse_obj(obj, fields) ==
    IF ValidatorAbort(obj)
    THEN [exc |-> "NotImplementedError", errors |-> <<>>]
    ELSE IF AllErrors(obj, fields) # <<>>
    THEN [exc |-> "ValidationError", errors |-> AllErrors(obj, fields)]
    ELSE [exc |-> "none", errors |-> <<>>, model |-> Instance(obj, fields)]

EnvironmentVariableArgs(obj) == parse_obj(obj, ArgsFields)

EnvironmentVariableModel(obj) == parse_obj(obj, ArgsFields \o ModelFields)

----------------------------------------------------------------------------
(* EnvironmentVariableProvider.check                                       *)

check(olds, news) ==
    LET p == EnvironmentVariableArgs(news) IN
    IF p.exc = "ValidationError"
    THEN [status |-> "returned", inputs |-> news,
          failures |-> [i \in DOMAIN p.errors |->
                          [property |-> p.errors[i].loc, reason |-> p.errors[i].msg]]]
    ELSE IF p.exc # "none"
    THEN [status |-> "raised", exc |-> p.exc]
    ELSE [status |-> "returned", inputs |-> news, failures |-> <<>>]

\* Candidate property bags: any subset of the fields, type also outside the enum.
CheckBags ==
    [key : {"BAR"}, value : {"qux"}, type : TypeLiterals \cup {"bogus"},
     target : {DefaultTarget}, teamId : {"safebear"}, projectId : {"app"},
     apiToken : {"tok1"}]

\* The engine's call of check on one candidate bag.
Check ==
    /\ last.op = "call" /\ last.fn = "check"
    /\ last' = [op |-> "check", news |-> last.news, res |-> check(<<>>, last.news)]
    /\ UNCHANGED <<remote, nextId>>

InitCheck ==
    /\ remote = {}
    /\ nextId = 1
    /\ last \in {[op |-> "call", fn |-> "check", news |-> Restrict(b, S)] :
                   b \in CheckBags, S \in SUBSET Range(ArgsFields)}

NextCheck == Check

SpecCheck == InitCheck /\ [][NextCheck]_vars

----------------------------------------------------------------------------
(* EnvironmentVariableProvider.diff                                        *)

\* EnvironmentVariableArgs.construct(**values): no validation, the defaults
\* of the fields first, then every given value over them.
construct(values) ==
    [f \in Defaulted \cup DOMAIN values |->
        IF f \in DOMAIN values THEN values[f] ELSE DefaultTarget]

\* diff with the guard "not replaces" of the key branch dropped.
diff_key_unguarded(resource_id, old_inputs, new_inputs) ==
    LET scope == SelectSeq(<<"teamId", "projectId">>,
                           LAMBDA key : old_inputs[key] # new_inputs[key])
        renamed == old_inputs["key"] # new_inputs["key"]
    IN [changes |-> construct(old_inputs) # construct(new_inputs),
        replaces |-> IF renamed THEN Append(scope, "key") ELSE scope,
        delete_before_replace |-> renamed]

\* diff with delete_before_replace left at its initial False.
diff_no_delete_first(resource_id, old_inputs, new_inputs) ==
    LET scope == SelectSeq(<<"teamId", "projectId">>,
                           LAMBDA key : old_inputs[key] # new_inputs[key])
        renamed == scope = <<>> /\ old_inputs["key"] # new_inputs["key"]
    IN [changes |-> construct(old_inputs) # construct(new_inputs),
        replaces |-> IF renamed THEN Append(scope, "key") ELSE scope,
        delete_before_replace |-> FALSE]

\* diff with changes taken from the replace list instead of the comparison.
diff_changes_from_replaces(resource_id, old_inputs, new_inputs) ==
    LET scope == SelectSeq(<<"teamId", "projectId">>,
                           LAMBDA key : old_inputs[key] # new_inputs[key])
        renamed == scope = <<>> /\ old_inputs["key"] # new_inputs["key"]
    IN [changes |-> scope # <<>> \/ renamed,
        replaces |-> IF renamed THEN Append(scope, "key") ELSE scope,
        delete_before_replace |-> renamed]

diff(resource_id, old_inputs, new_inputs) ==
    LET scope == SelectSeq(<<"teamId", "projectId">>,
                           LAMBDA key : old_inputs[key] # new_inputs[key])
        renamed == scope = <<>> /\ old_inputs["key"] # new_inputs["key"]
        olds == construct(old_inputs)
        news == construct(new_inputs)
    IN [changes |-> olds # news,
        replaces |-> IF renamed THEN Append(scope, "key") ELSE scope,
        delete_before_replace |-> renamed]

\* Property bags as EnvironmentVariable.__init__ assembles them: every field set.
DiffBags ==
    [key : Keys, value : Values, type : {"plain", "encrypted"}, target : Targets,
     teamId : TeamIds, projectId : ProjectIds, apiToken : ApiTokens]

\* The engine's call of diff on one pair of bags.
Diff ==
    /\ last.op = "call" /\ last.fn = "diff"
    /\ last' = [op |-> "diff", olds |-> last.olds, news |-> last.news,
                res |-> diff(1, last.olds, last.news)]
    /\ UNCHANGED <<remote, nextId>>

InitDiff ==
    /\ remote = {}
    /\ nextId = 1
    /\ last \in {[op |-> "call", fn |-> "diff", olds |-> o, news |-> n] :
                   o \in DiffBags, n \in DiffBags}

NextDiff == Diff

SpecDiff == InitDiff /\ [][NextDiff]_vars

----------------------------------------------------------------------------
(* The remote service, as the client sees it.                              *)

\* What the service may answer to one request: the operation's success
\* envelope (with or without the scope fields and the token echoed in the
\* entry), an error envelope under some HTTP status, or a body that is not JSON.
Answers ==
    {[kind |-> "ok", echo |-> e] : e \in BOOLEAN}
    \cup {[kind |-> "error", status |-> 403, code |-> "forbidden", message |-> "no access"],
          [kind |-> "error", status |-> 200, code |-> "not_found", message |-> "no such env"]}
    \cup {[kind |-> "nonjson", status |-> 502]}

\* The JSON object the service renders for a stored entry.
Flat(e, req, echo) ==
    LET scope == IF echo THEN {"teamId", "projectId", "apiToken"} ELSE {}
    IN [f \in {"id", "key", "value", "type", "target",
               "createdAt", "createdBy", "updatedAt", "updatedBy"} \cup scope |->
          CASE f = "apiToken" -> req.api_token
            [] f \in {"createdAt", "updatedAt"} -> 0
            [] f \in {"createdBy", "updatedBy"} -> "u"
            [] OTHER -> e[f]]

ErrorBody(code, message) == [error |-> [code |-> code, message |-> message]]

\* The service handling one request: its response, and its entries afterwards.
Serve(rem, nid, req, ans) ==
    LET hit == {e \in rem : /\ e.id = req.envId
                            /\ e.projectId = req.projectId
                            /\ e.teamId = req.query_parameters.teamId}
        same(r) == [response |-> r, remote |-> rem, nextId |-> nid]
    IN
    IF ans.kind = "nonjson"
    THEN same([status |-> ans.status, json |-> FALSE, data |-> <<>>])
    ELSE IF ans.kind = "error"
    THEN same([status |-> ans.status, json |-> TRUE,
               data |-> ErrorBody(ans.code, ans.message)])
    ELSE IF req.method = "POST"
    THEN LET e == [id |-> nid, projectId |-> req.projectId,
                   teamId |-> req.query_parameters.teamId,
                   key |-> req.body_parameters.key,
                   value |-> req.body_parameters.value,
                   type |-> req.body_parameters.type,
                   target |-> req.body_parameters.target]
         IN [response |-> [status |-> 200, json |-> TRUE,
                           data |-> [created |-> Flat(e, req, ans.echo)]],
             remote |-> rem \cup {e}, nextId |-> nid + 1]
    ELSE IF hit = {}
    THEN same([status |-> 404, json |-> TRUE,
               data |-> ErrorBody("not_found", "no such env")])
    ELSE LET e == CHOOSE x \in hit : TRUE
             p == [e EXCEPT !.key = req.body_parameters.key,
                            !.value = req.body_parameters.value,
                            !.type = req.body_parameters.type,
                            !.target = req.body_parameters.target]
         IN CASE req.method = "GET" ->
                   same([status |-> 200, json |-> TRUE, data |-> Flat(e, req, ans.echo)])
              [] req.method = "PATCH" ->
                   [response |-> [status |-> 200, json |-> TRUE,
                                  data |-> Flat(p, req, ans.echo)],
                    remote |-> (rem \ {e}) \cup {p}, nextId |-> nid]
              [] req.method = "DELETE" ->
                   [response |-> [status |-> 200, json |-> TRUE,
                                  data |-> Flat(e, req, ans.echo)],
                    remote |-> rem \ {e}, nextId |-> nid]

----------------------------------------------------------------------------
(* client.query                                                            *)

Request(version, project_id, env_id, method, api_token, team_id, body_parameters) ==
    [version |-> version, projectId |-> project_id, envId |-> env_id,
     method |-> method, api_token |-> api_token,
     query_parameters |-> [teamId |-> team_id],
     body_parameters |-> body_parameters]

\* What query does with the response it got.
Decode(r) ==
    IF ~r.json THEN [exc |-> "JSONDecodeError"]
    ELSE IF "error" \in DOMAIN r.data
    THEN [exc |-> "VercelError", code |-> r.data.error.code,
          message |-> r.data.error.message]
    ELSE [exc |-> "none", response_data |-> r.data]

\* query that looks for the error payload only under a failing HTTP status.
query_status_gated(req, rem, nid, ans) ==
    LET s == Serve(rem, nid, req, ans)
        r == s.response
    IN [requests |-> <<req>>, responses |-> <<r>>,
        remote |-> s.remote, nextId |-> s.nextId]
       @@ (IF r.json /\ r.status < 400
           THEN [exc |-> "none", response_data |-> r.data]
           ELSE Decode(r))

\* One request, one response: no retry.
query(req, rem, nid, ans) ==
    LET s == Serve(rem, nid, req, ans)
        r == s.response
    IN [requests |-> <<req>>, responses |-> <<r>>,
        remote |-> s.remote, nextId |-> s.nextId]
       @@ Decode(r)

Body(inputs) ==
    [key |-> inputs["key"], value |-> inputs["value"],
     type |-> inputs["type"], target |-> inputs["target"]]

\* An operation that raised exc after the exchange q with the service.
Raised(q, exc) ==
    [res |-> [status |-> "raised", exc |-> exc],
     requests |-> q.requests, responses |-> q.responses,
     remote |-> q.remote, nextId |-> q.nextId]

\* An operation that lets the exception of query through.
Propagated(q) ==
    [res |-> IF q.exc = "VercelError"
             THEN [status |-> "raised", exc |-> q.exc,
                   code |-> q.code, message |-> q.message]
             ELSE [status |-> "raised", exc |-> q.exc],
     requests |-> q.requests, responses |-> q.responses,
     remote |-> q.remote, nextId |-> q.nextId]

Returned(q, res) ==
    [res |-> res, requests |-> q.requests, responses |-> q.responses,
     remote |-> q.remote, nextId |-> q.nextId]

NoExchange(rem, nid) ==
    [requests |-> <<>>, responses |-> <<>>, remote |-> rem, nextId |-> nid]

----------------------------------------------------------------------------
(* EnvironmentVariableProvider.create / read / update / delete             *)

create(inputs, rem, nid, ans) ==
    LET a == EnvironmentVariableArgs(inputs) IN
    IF a.exc # "none" THEN Raised(NoExchange(rem, nid), a.exc)
    ELSE
    LET args == a.model
        q == query(Request("v10", args.projectId, 0, "POST", args.apiToken,
                           args.teamId, Body(args)),
                   rem, nid, ans)
    IN
    IF q.exc # "none" THEN Propagated(q)
    ELSE IF "created" \notin DOMAIN q.response_data THEN Raised(q, "KeyError")
    ELSE
    LET m == EnvironmentVariableModel(q.response_data.created) IN
    IF m.exc # "none" THEN Raised(q, m.exc)
    ELSE Returned(q, [status |-> "ok", id |-> q.response_data.created.id,
                      outs |-> m.model])

read(resource_id, inputs, rem, nid, ans) ==
    LET q == query(Request("v9", inputs["projectId"], resource_id, "GET",
                           inputs["apiToken"], inputs["teamId"], <<>>),
                   rem, nid, ans)
    IN
    IF q.exc # "none" THEN Propagated(q)
    ELSE
    LET m == EnvironmentVariableModel(q.response_data) IN
    IF m.exc # "none" THEN Raised(q, m.exc)
    ELSE Returned(q, [status |-> "ok", id |-> resource_id, outs |-> m.model])

update(resource_id, old_inputs, new_inputs, rem, nid, ans) ==
    LET q == query(Request("v9", new_inputs["projectId"], resource_id, "PATCH",
                           new_inputs["apiToken"], new_inputs["teamId"],
                           Body(new_inputs)),
                   rem, nid, ans)
    IN
    IF q.exc # "none" THEN Propagated(q)
    ELSE Returned(q, [status |-> "ok",
                      outs |-> [f \in DOMAIN new_inputs \cup DOMAIN q.response_data |->
                                  IF f \in DOMAIN q.response_data
                                  THEN q.response_data[f] ELSE new_inputs[f]]])

delete(resource_id, inputs, rem, nid, ans) ==
    LET q == query(Request("v9", inputs["projectId"], resource_id, "DELETE",
                           inputs["apiToken"], inputs["teamId"], Body(inputs)),
                   rem, nid, ans)
    IN
    IF q.exc # "none" THEN Propagated(q)
    ELSE Returned(q, [status |-> "ok"])

----------------------------------------------------------------------------
(* The engine driving the provider against the service.                    *)

\* Checked property bags the engine holds for a resource.
LifecycleBags ==
    [key : {"BAR"}, value : Values, type : {"plain"}, target : {DefaultTarget},
     teamId : TeamIds, projectId : {"app"}, apiToken : {"tok1"}]

\* Bags create may also be handed: check is a separate call.
UncheckedBags ==
    [key : {"BAR"}, value : {"qux"}, type : {"secret", "system"},
     target : {DefaultTarget}, teamId : {"safebear"}, projectId : {"app"},
     apiToken : {"tok1"}]

ResourceIds == 1..MaxEntries

\* The record of the last operation: its arguments, the exchange with the
\* service, the result, and the entries the service stored during it.
Done(op, id, inputs, r) ==
    /\ last' = [op |-> op, id |-> id, inputs |-> inputs, res |-> r.res,
                requests |-> r.requests, responses |-> r.responses,
                stored |-> {e.id : e \in r.remote} \ {e.id : e \in remote}]
    /\ remote' = r.remote
    /\ nextId' = r.nextId

Create(inputs, ans) ==
    /\ nextId <= MaxEntries
    /\ Done("create", 0, inputs, create(inputs, remote, nextId, ans))

Read(resource_id, inputs, ans) ==
    /\ resource_id \in ResourceIds
    /\ Done("read", resource_id, inputs, read(resource_id, inputs, remote, nextId, ans))

\* The engine updates only where diff names no field to replace.
Update(resource_id, old_inputs, new_inputs, ans) ==
    /\ resource_id \in ResourceIds
    /\ diff(resource_id, old_inputs, new_inputs).replaces = <<>>
    /\ Done("update", resource_id, new_inputs,
            update(resource_id, old_inputs, new_inputs, remote, nextId, ans))

Delete(resource_id, inputs, ans) ==
    /\ resource_id \in ResourceIds
    /\ Done("delete", resource_id, inputs,
            delete(resource_id, inputs, remote, nextId, ans))

Init ==
    /\ remote = {}
    /\ nextId = 1
    /\ last = [op |-> "none"]

Next ==
    \/ \E inputs \in LifecycleBags \cup UncheckedBags, ans \in Answers :
          Create(inputs, ans)
    \/ \E id \in ResourceIds, inputs \in LifecycleBags, ans \in Answers :
          Read(id, inputs, ans)
    \/ \E id \in ResourceIds, olds \in LifecycleBags, news \in LifecycleBags,
          ans \in Answers :
          Update(id, olds, news, ans)
    \/ \E id \in ResourceIds, inputs \in LifecycleBags, ans \in Answers :
          Delete(id, inputs, ans)

Spec == Init /\ [][Next]_vars

----------------------------------------------------------------------------
(* Properties of create / read / update / delete, checked under Spec.      *)

IsLifecycleOp == last.op \in {"create", "read", "update", "delete"}

\* The operation sent a request and the service answered it with JSON.
AnsweredJson == /\ IsLifecycleOp
                /\ Len(last.responses) >= 1
                /\ last.responses[1].json

\* C1: whenever create fails (raises, returns no id), the remote service holds
\* no entry stored by that call, whatever the point at which create failed.
CreateTransactional ==
    (last.op = "create" /\ last.res.status = "raised") => last.stored = {}

\* The fields the creation answer carries when the service returns the entry
\* without the scope fields and the token.
CreatedFields ==
    {"id", "key", "value", "type", "target",
     "createdAt", "createdBy", "updatedAt", "updatedBy"}

\* C2: for a valid desired configuration, a success envelope whose created
\* sub-object carries id, key, value, type, target and the audit fields (and
\* no teamId, projectId or apiToken) makes create return created.id and an
\* Observed Model with created's key, value, type and target.
CreateMapsCreated ==
    (/\ last.op = "create"
     /\ EnvironmentVariableArgs(last.inputs).exc = "none"
     /\ AnsweredJson
     /\ "created" \in DOMAIN last.responses[1].data
     /\ DOMAIN last.responses[1].data.created = CreatedFields)
    => (/\ last.res.status = "ok"
        /\ last.res.id = last.responses[1].data.created.id
        /\ \A f \in {"key", "value", "type", "target"} :
              last.res.outs[f] = last.responses[1].data.created[f])

UserFields == {"key", "value", "type", "target", "teamId", "projectId"}

\* C3: reading, with the args it was created from, an entry the service stores
\* and answers for with the flat stored entry, succeeds and returns a model
\* whose key, value, type, target, teamId and projectId equal those of args.
CreateReadRoundTrip ==
    (/\ last.op = "read"
     /\ AnsweredJson
     /\ "error" \notin DOMAIN last.responses[1].data
     /\ \E e \in remote : /\ e.id = last.id
                          /\ \A f \in UserFields : e[f] = last.inputs[f])
    => (/\ last.res.status = "ok"
        /\ \A f \in UserFields : last.res.outs[f] = last.inputs[f])

\* C10: when the service answers the request of create, read, update or delete
\* with an envelope holding an error field, under any HTTP status, the
\* operation raises VercelError with exactly the remote code and message,
\* yields neither id nor outs, and has sent exactly one request.
RemoteErrorPropagates ==
    (AnsweredJson /\ "error" \in DOMAIN last.responses[1].data)
    => (/\ last.res.status = "raised"
        /\ last.res.exc = "VercelError"
        /\ last.res.code = last.responses[1].data.error.code
        /\ last.res.message = last.responses[1].data.error.message
        /\ "id" \notin DOMAIN last.res
        /\ "outs" \notin DOMAIN last.res
        /\ Len(last.requests) = 1
        /\ Len(last.responses) = 1)

\* An update answered with an error envelope under HTTP status 200 has raised
\* the remote code.
RemoteErrorPropagatesWitness ==
    /\ last.op = "update"
    /\ Len(last.responses) = 1
    /\ last.responses[1].status = 200
    /\ last.responses[1].json
    /\ "error" \in DOMAIN last.responses[1].data
    /\ last.res.status = "raised"
    /\ last.res.code = "not_found"

----------------------------------------------------------------------------
(* Properties of diff, checked under SpecDiff.                             *)

Differs(f) == last.olds[f] # last.news[f]

\* C4: bags equal in every field except apiToken give changes = false, no
\* replace field and delete_before_replace = false.
TokenAloneNoDiff ==
    (last.op = "diff" /\ \A f \in Range(ArgsFields) \ {"apiToken"} : ~Differs(f))
    => (/\ last.res.changes = FALSE
        /\ last.res.replaces = <<>>
        /\ last.res.delete_before_replace = FALSE)

\* C5: when teamId or projectId differ, the replace fields are exactly the
\* differing ones among teamId, projectId, in that order, never key, with
\* delete_before_replace = false and changes = true, whatever else differs.
ScopeChangeReplaces ==
    (last.op = "diff" /\ (Differs("teamId") \/ Differs("projectId")))
    => (/\ last.res.replaces =
              (IF Differs("teamId") THEN <<"teamId">> ELSE <<>>)
              \o (IF Differs("projectId") THEN <<"projectId">> ELSE <<>>)
        /\ "key" \notin Range(last.res.replaces)
        /\ last.res.delete_before_replace = FALSE
        /\ last.res.changes = TRUE)

\* A diff of bags whose teamId and key both differ, projectId equal.
ScopeChangeReplacesWitness ==
    /\ last.op = "diff"
    /\ Differs("teamId") /\ ~Differs("projectId") /\ Differs("key")
    /\ last.res.replaces = <<"teamId">>

\* C6: with teamId and projectId equal and key differing, replace fields are
\* {key}, delete_before_replace = true and changes = true; and
\* delete_before_replace is true in no other case.
KeyChangeDeletesFirst ==
    last.op = "diff"
    => LET rename == ~Differs("teamId") /\ ~Differs("projectId") /\ Differs("key")
       IN /\ rename => /\ last.res.replaces = <<"key">>
                       /\ last.res.delete_before_replace = TRUE
                       /\ last.res.changes = TRUE
          /\ last.res.delete_before_replace = TRUE => rename

\* A diff of bags in one scope whose key and value differ.
KeyChangeDeletesFirstWitness ==
    /\ last.op = "diff"
    /\ ~Differs("teamId") /\ ~Differs("projectId")
    /\ Differs("key") /\ Differs("value")
    /\ last.res.delete_before_replace = TRUE

\* C7: with teamId, projectId, key and apiToken equal, there is no replace
\* field, delete_before_replace = false, and changes is true exactly when
\* value, type or target differs.
InPlaceUpdate ==
    (/\ last.op = "diff"
     /\ \A f \in {"teamId", "projectId", "key", "apiToken"} : ~Differs(f))
    => (/\ last.res.replaces = <<>>
        /\ last.res.delete_before_replace = FALSE
        /\ last.res.changes = (Differs("value") \/ Differs("type") \/ Differs("target")))

\* A diff of bags that differ in value alone: changed, nothing to replace.
InPlaceUpdateWitness ==
    /\ last.op = "diff"
    /\ \A f \in Range(ArgsFields) : Differs(f) <=> f = "value"
    /\ last.res.changes = TRUE
    /\ last.res.replaces = <<>>

----------------------------------------------------------------------------
(* Properties of check, checked under SpecCheck.                           *)

\* The fields check's failures are keyed by.
FailedFields == {last.res.failures[i].property : i \in DOMAIN last.res.failures}

\* C8: a candidate with type secret or sensitive is rejected by a returned
\* result holding a failure on the type field, never by an exception.
SecretTypeRejected ==
    (/\ last.op = "check"
     /\ "type" \in DOMAIN last.news
     /\ last.news["type"] \in {"secret", "sensitive"})
    => (last.res.status = "returned" /\ "type" \in FailedFields)

\* The fields of a candidate that are missing though required, or hold a
\* type outside the enum, or the type system.
Violating(news) ==
    {f \in Range(ArgsFields) \ Defaulted : f \notin DOMAIN news}
    \cup {f \in {"type"} : /\ f \in DOMAIN news
                           /\ (news[f] \notin TypeLiterals \/ news[f] = "system")}

\* C9: check returns, for every candidate, a result with one failure per
\* violating field, keyed by that field, none suppressing another; type =
\* system always fails on type; a candidate without violation has no failure.
AllViolationsReported ==
    last.op = "check"
    => (/\ last.res.status = "returned"
        /\ FailedFields = Violating(last.news)
        /\ Len(last.res.failures) = Cardinality(Violating(last.news)))

====
